---- MODULE Spec2Model ----
(***************************************************************************)
(* Provisioning model of the ECS microservices deployment programs.        *)
(*                                                                         *)
(* Two deployment programs are modelled: the single-service stage          *)
(* (03-custom-image.ts) and the multi-service stage with autoscaling.      *)
(* Each program declares resources; a resource is requested from its       *)
(* provider once every resource it references (or names in dependsOn) has  *)
(* been created.  The certificate's domainValidationOptions callback runs  *)
(* once the certificate exists and declares one DNS record and one         *)
(* CertificateValidation per retained validation option.                   *)
(***************************************************************************)
EXTENDS Integers, Sequences, FiniteSets, TLC

VARIABLES
    stage,              \* which program is deployed: "single" or "multi"
    status,             \* status of every statically declared resource
    validationOptions,  \* certificate.domainValidationOptions, once known
    applied,            \* TRUE once the domainValidationOptions callback ran
    records,            \* route53.Record resources declared by the callback
    validations,        \* acm.CertificateValidation resources declared by it
    forwarded,          \* the last request served by the secure listener
    phase,              \* "running" or "aborted": the current run
    run,                \* number of the current provisioning run
    desired,            \* desired replica count of every service
    now,                \* time in seconds, the unit of the cooldown
    activities          \* times of each service's policy-made scaling

opsVars == <<phase, run>>

scalingVars == <<now, activities>>

vars == <<stage, status, validationOptions, applied, records, validations,
          forwarded, phase, run, desired, now, activities>>

----------------------------------------------------------------------------
(* Bounds *)

MaxChallenges == 3      \* longest challenge list explored for the callback
MaxRunChallenges == 2   \* longest challenge list in a full provisioning run
MaxRuns == 2            \* provisioning runs over one deployment
MaxTicks == 4           \* clock ticks explored after a completed run
MaxDesired == 3         \* highest desired count the operator asks for

----------------------------------------------------------------------------
(* Program constants *)

YOUR_DOMAIN == "uncld.net"

\* Validation options the certificate authority may return.
RecordTypes == {"CNAME", "TXT"}
RecordNames == {"_a.uncld.net.", "_b.uncld.net."}
RecordValues == {"_x.acm-validations.aws.", "_y.acm-validations.aws."}

ValidationOption ==
    [resourceRecordType : RecordTypes,
     resourceRecordName : RecordNames,
     resourceRecordValue : RecordValues]

RECURSIVE SeqsUpTo(_, _)
SeqsUpTo(S, n) ==
    IF n = 0 THEN {<<>>}
    ELSE LET shorter == SeqsUpTo(S, n - 1)
         IN  shorter \cup {Append(s, x) : s \in {t \in shorter : Len(t) = n - 1}, x \in S}

\* The options of a full provisioning run: two options that differ in name
\* and value, so that lists with and without duplicates both occur.
RunOptionA == [resourceRecordType |-> "CNAME",
               resourceRecordName |-> "_a.uncld.net.",
               resourceRecordValue |-> "_x.acm-validations.aws."]
RunOptionB == [resourceRecordType |-> "CNAME",
               resourceRecordName |-> "_b.uncld.net.",
               resourceRecordValue |-> "_y.acm-validations.aws."]

----------------------------------------------------------------------------
(* The declared resources and their references *)

\* The declarations of each program, in program order.
MultiDeclared ==
    <<"group", "alb", "todoAppTg", "todoApiTg", "ecsTaskInitializationRole",
      "rpa", "cluster", "httpsRedirectListener", "certificate",
      "hostedZoneAlbRecord", "todoListener", "todoApiListenerRule", "ecrRepo",
      "todoAppImage", "todoApiImage", "allowImageAccess",
      "taskExecutionRolePolicyAttachment", "logGroup", "todoAppTask",
      "todoTable", "allowTableAccess", "ecsTaskRole",
      "allowTableAccessPolicyAttachment", "todoApiTask", "todoAppService",
      "todoApiService", "todoAppScalingTarget", "todoAppScalingPolicy",
      "todoApiScalingTarget", "todoApiScalingPolicy">>

SingleDeclared ==
    <<"group", "alb", "atg", "role", "rpa", "cluster", "wl", "certificate",
      "hostedZoneAlbRecord", "secureWebListener", "ecrRepo", "websiteImage",
      "allowImageAccess", "taskExecutionRolePolicyAttachment", "logGroup",
      "taskDefinition", "service">>

Declared(st) == IF st = "multi" THEN MultiDeclared ELSE SingleDeclared

Resources(st) == {Declared(st)[i] : i \in 1..Len(Declared(st))}

\* Security group, IAM, image registry, logging, table and alias-record
\* declarations: prerequisites of the load balancer and the task definitions
\* that take no part in routing, certificate validation or scaling.
Supporting ==
    {"group", "ecsTaskInitializationRole", "role", "rpa",
     "hostedZoneAlbRecord", "ecrRepo", "todoAppImage", "todoApiImage",
     "websiteImage", "allowImageAccess", "taskExecutionRolePolicyAttachment",
     "logGroup", "todoTable", "allowTableAccess", "ecsTaskRole",
     "allowTableAccessPolicyAttachment"}

\* Resources a declaration references through its arguments.
MultiRefs(r) ==
    CASE r = "alb" -> {"group"}
      [] r = "rpa" -> {"ecsTaskInitializationRole"}
      [] r = "httpsRedirectListener" -> {"alb"}
      [] r = "hostedZoneAlbRecord" -> {"alb"}
      [] r = "todoListener" -> {"alb", "certificate", "todoAppTg"}
      [] r = "todoApiListenerRule" -> {"todoListener", "todoApiTg"}
      [] r = "todoAppImage" -> {"ecrRepo"}
      [] r = "todoApiImage" -> {"ecrRepo"}
      [] r = "allowImageAccess" -> {"ecrRepo"}
      [] r = "taskExecutionRolePolicyAttachment" ->
            {"ecsTaskInitializationRole", "allowImageAccess"}
      [] r = "todoAppTask" ->
            {"ecsTaskInitializationRole", "todoAppImage", "logGroup"}
      [] r = "allowTableAccess" -> {"todoTable"}
      [] r = "allowTableAccessPolicyAttachment" ->
            {"ecsTaskRole", "allowTableAccess"}
      [] r = "todoApiTask" ->
            {"ecsTaskInitializationRole", "ecsTaskRole", "todoApiImage",
             "todoTable", "logGroup"}
      [] r = "todoAppService" ->
            {"cluster", "todoAppTask", "group", "todoAppTg"}
      [] r = "todoApiService" ->
            {"cluster", "todoApiTask", "group", "todoApiTg"}
      [] r = "todoAppScalingTarget" -> {"cluster", "todoAppService"}
      [] r = "todoAppScalingPolicy" -> {"todoAppScalingTarget"}
      [] r = "todoApiScalingTarget" -> {"cluster", "todoApiService"}
      [] r = "todoApiScalingPolicy" -> {"todoApiScalingTarget"}
      [] OTHER -> {}

\* Variant of MultiDependsOn: the services declare no dependsOn.
MultiDependsOnNothing(r) == {}

\* Variant of MultiDependsOn: the plain listener waits for the certificate.
MultiDependsOnGatingPlainListener(r) ==
    CASE r = "todoAppService" -> {"httpsRedirectListener", "todoListener"}
      [] r = "todoApiService" ->
            {"httpsRedirectListener", "todoListener", "todoApiListenerRule"}
      [] r = "httpsRedirectListener" -> {"certificate"}
      [] OTHER -> {}

\* Variant of MultiDependsOn: the secure listener also waits for its own
\* routing rule.
MultiDependsOnCyclic(r) ==
    CASE r = "todoAppService" -> {"httpsRedirectListener", "todoListener"}
      [] r = "todoApiService" ->
            {"httpsRedirectListener", "todoListener", "todoApiListenerRule"}
      [] r = "todoListener" -> {"todoApiListenerRule"}
      [] OTHER -> {}

\* Resources a declaration names in its dependsOn option.
MultiDependsOn(r) ==
    CASE r = "todoAppService" -> {"httpsRedirectListener", "todoListener"}
      [] r = "todoApiService" ->
            {"httpsRedirectListener", "todoListener", "todoApiListenerRule"}
      [] OTHER -> {}

SingleRefs(r) ==
    CASE r = "alb" -> {"group"}
      [] r = "rpa" -> {"role"}
      [] r = "wl" -> {"alb"}
      [] r = "hostedZoneAlbRecord" -> {"alb"}
      [] r = "secureWebListener" -> {"alb", "certificate", "atg"}
      [] r = "websiteImage" -> {"ecrRepo"}
      [] r = "allowImageAccess" -> {"ecrRepo"}
      [] r = "taskExecutionRolePolicyAttachment" -> {"role", "allowImageAccess"}
      [] r = "taskDefinition" -> {"role", "websiteImage", "logGroup"}
      [] r = "service" -> {"cluster", "taskDefinition", "group", "atg"}
      [] OTHER -> {}

\* Variant of SingleDependsOn: the secure listener also waits for the
\* service.
SingleDependsOnCyclic(r) ==
    CASE r = "service" -> {"wl", "secureWebListener"}
      [] r = "secureWebListener" -> {"service"}
      [] OTHER -> {}

SingleDependsOn(r) ==
    CASE r = "service" -> {"wl", "secureWebListener"}
      [] OTHER -> {}

\* Variant of Deps: no declaration references the certificate.
DepsWithoutCertificate(st, r) ==
    (IF st = "multi" THEN MultiRefs(r) \cup MultiDependsOn(r)
     ELSE SingleRefs(r) \cup SingleDependsOn(r)) \ {"certificate"}

\* A resource is requested only after everything it references or depends
\* on has been created.
Deps(st, r) ==
    IF st = "multi" THEN MultiRefs(r) \cup MultiDependsOn(r)
    ELSE SingleRefs(r) \cup SingleDependsOn(r)

\* Everything a resource depends on, directly or transitively.
RECURSIVE Ancestors(_, _)
Ancestors(st, r) ==
    Deps(st, r) \cup UNION {Ancestors(st, d) : d \in Deps(st, r)}

\* The roles the declarations play in each program.
PlainListener(st) == IF st = "multi" THEN "httpsRedirectListener" ELSE "wl"

SecureListener(st) ==
    IF st = "multi" THEN "todoListener" ELSE "secureWebListener"

TargetGroups(st) ==
    IF st = "multi" THEN {"todoAppTg", "todoApiTg"} ELSE {"atg"}

Services(st) ==
    IF st = "multi" THEN {"todoAppService", "todoApiService"} ELSE {"service"}

\* The constructor of each declaration.
Kind(r) ==
    CASE r \in {"alb"} -> "LoadBalancer"
      [] r \in {"todoAppTg", "todoApiTg", "atg"} -> "TargetGroup"
      [] r \in {"httpsRedirectListener", "todoListener", "wl",
                "secureWebListener"} -> "Listener"
      [] r \in {"todoApiListenerRule"} -> "ListenerRule"
      [] r \in {"todoAppTask", "todoApiTask", "taskDefinition"} ->
            "TaskDefinition"
      [] r \in {"todoAppService", "todoApiService", "service"} -> "Service"
      [] r \in {"todoAppScalingTarget", "todoApiScalingTarget"} ->
            "ScalingTarget"
      [] r \in {"todoAppScalingPolicy", "todoApiScalingPolicy"} ->
            "ScalingPolicy"
      [] r \in {"certificate"} -> "Certificate"
      [] r \in {"cluster"} -> "Cluster"
      [] OTHER -> "Supporting"

\* desiredCount of each service.
DesiredCount(r) ==
    CASE r = "todoAppService" -> 1
      [] r = "todoApiService" -> 1
      [] r = "service" -> 1

\* Port and default actions of each listener.
ListenerPort(r) ==
    IF r \in {"httpsRedirectListener", "wl"} THEN 80 ELSE 443

\* Variant of DefaultActions: the secure listener of the two-service program
\* forwards to the api target group by default.
DefaultActionsToApi(r) ==
    CASE r \in {"httpsRedirectListener", "wl"} ->
            <<[type |-> "redirect", protocol |-> "HTTPS",
               statusCode |-> "HTTP_301"]>>
      [] r = "todoListener" ->
            <<[type |-> "forward", targetGroupArn |-> "todoApiTg"]>>
      [] r = "secureWebListener" ->
            <<[type |-> "forward", targetGroupArn |-> "atg"]>>

DefaultActions(r) ==
    CASE r \in {"httpsRedirectListener", "wl"} ->
            <<[type |-> "redirect", protocol |-> "HTTPS",
               statusCode |-> "HTTP_301"]>>
      [] r = "todoListener" ->
            <<[type |-> "forward", targetGroupArn |-> "todoAppTg"]>>
      [] r = "secureWebListener" ->
            <<[type |-> "forward", targetGroupArn |-> "atg"]>>

\* loadBalancers[0].targetGroupArn of each service, taskDefinition of each
\* service and the service named by each scaling target's resourceId.
ServiceTargetGroup(r) ==
    CASE r = "todoAppService" -> "todoAppTg"
      [] r = "todoApiService" -> "todoApiTg"
      [] r = "service" -> "atg"

ServiceTask(r) ==
    CASE r = "todoAppService" -> "todoAppTask"
      [] r = "todoApiService" -> "todoApiTask"
      [] r = "service" -> "taskDefinition"

ScalingTargetService(r) ==
    CASE r = "todoAppScalingTarget" -> "todoAppService"
      [] r = "todoApiScalingTarget" -> "todoApiService"

ScalingPolicyTarget(r) ==
    CASE r = "todoAppScalingPolicy" -> "todoAppScalingTarget"
      [] r = "todoApiScalingPolicy" -> "todoApiScalingTarget"

ScalingServiceTarget(svc) ==
    CHOOSE t \in {"todoAppScalingTarget", "todoApiScalingTarget"} :
        ScalingTargetService(t) = svc

ScalingTargetPolicy(t) ==
    CHOOSE p \in {"todoAppScalingPolicy", "todoApiScalingPolicy"} :
        ScalingPolicyTarget(p) = t

\* Capacity bounds of each appautoscaling.Target.
ScalingTarget(r) ==
    [maxCapacity |-> 10,
     minCapacity |-> 1,
     scalableDimension |-> "ecs:service:DesiredCount"]

\* Variant of stepScalingPolicyConfiguration: no cooldown.
stepScalingPolicyConfigurationWithoutCooldown(r) ==
    [adjustmentType |-> "ChangeInCapacity",
     cooldown |-> 0,
     metricAggregationType |-> "Maximum",
     stepAdjustments |->
         <<[metricIntervalUpperBound |-> 0, scalingAdjustment |-> -1]>>]

\* stepScalingPolicyConfiguration of each appautoscaling.Policy.
stepScalingPolicyConfiguration(r) ==
    [adjustmentType |-> "ChangeInCapacity",
     cooldown |-> 60,
     metricAggregationType |-> "Maximum",
     stepAdjustments |->
         <<[metricIntervalUpperBound |-> 0, scalingAdjustment |-> -1]>>]

\* Seconds between two readings of the clock: half a cooldown.
TickSeconds ==
    stepScalingPolicyConfiguration("todoAppScalingPolicy").cooldown \div 2

----------------------------------------------------------------------------
(* Routing on the secure listener *)

\* Request paths and path patterns are sequences of characters.
ApiPattern == <<"/", "a", "p", "i", "/", "*">>

\* Request paths served in the model.
Paths ==
    {<<"/">>,
     <<"/", "a", "p", "i">>,
     <<"/", "a", "p", "i", "/">>,
     <<"/", "a", "p", "i", "/", "t">>,
     <<"/", "a", "p", "i", "x">>}

\* A path pattern matches a path when they agree character by character,
\* where * stands for any run of characters and ? for any one character.
RECURSIVE Match(_, _)
Match(pattern, path) ==
    IF pattern = <<>> THEN path = <<>>
    ELSE IF Head(pattern) = "*"
         THEN \/ Match(Tail(pattern), path)
              \/ path # <<>> /\ Match(pattern, Tail(path))
         ELSE /\ path # <<>>
              /\ Head(pattern) = "?" \/ Head(pattern) = Head(path)
              /\ Match(Tail(pattern), Tail(path))

\* Variant of MultiListenerRules: a second rule of the same priority matches
\* every path and forwards to the app target group.
MultiListenerRulesClashing ==
    {[name |-> "todoApiListenerRule",
      listenerArn |-> "todoListener",
      values |-> {ApiPattern},
      priority |-> 10,
      targetGroupArn |-> "todoApiTg"],
     [name |-> "todoApiListenerRule",
      listenerArn |-> "todoListener",
      values |-> {<<"/", "*">>},
      priority |-> 10,
      targetGroupArn |-> "todoAppTg"]}

MultiListenerRules ==
    {[name |-> "todoApiListenerRule",
      listenerArn |-> "todoListener",
      values |-> {ApiPattern},
      priority |-> 10,
      targetGroupArn |-> "todoApiTg"]}

ListenerRules(st) == IF st = "multi" THEN MultiListenerRules ELSE {}

\* The exported URLs, as a host and the characters of the path after it.
publicUrl == [host |-> YOUR_DOMAIN, path |-> <<>>]

publicApiUrl == [host |-> YOUR_DOMAIN, path |-> <<"/", "a", "p", "i">>]

NoRequest == [path |-> <<>>, targetGroupArn |-> "none"]


\* Callbacks are functions: a predicate maps an element to a truth value, a
\* filter callback maps <<element, index>> and a comparator maps <<x, y>>.

\* Array.prototype.findIndex: zero-based index of the first element that
\* satisfies pred, or -1 when there is none.
findIndex(arr, pred) ==
    IF \E i \in 1..Len(arr) : pred[arr[i]]
    THEN (CHOOSE i \in 1..Len(arr) :
              pred[arr[i]] /\ \A j \in 1..(i - 1) : ~pred[arr[j]]) - 1
    ELSE -1

\* Array.prototype.filter with the (element, index) callback signature.
filter(arr, keep) ==
    LET F[i \in 0..Len(arr)] ==
            IF i = 0 THEN <<>>
            ELSE IF keep[<<arr[i], i - 1>>] THEN Append(F[i - 1], arr[i])
                 ELSE F[i - 1]
    IN  F[Len(arr)]

\* The filter with its test inverted: keeps the repeats, drops the first
\* occurrences.
uniqWithRepeatsOnly(arr, fn) ==
    LET elements == {arr[i] : i \in 1..Len(arr)}
    IN  filter(arr,
               [p \in {<<arr[i], i - 1>> : i \in 1..Len(arr)} |->
                   findIndex(arr, [step \in elements |-> fn[<<p[1], step>>]])
                       # p[2]])

uniqWith(arr, fn) ==
    LET elements == {arr[i] : i \in 1..Len(arr)}
    IN  filter(arr,
               [p \in {<<arr[i], i - 1>> : i \in 1..Len(arr)} |->
                   findIndex(arr, [step \in elements |-> fn[<<p[1], step>>]])
                       = p[2]])

\* Variant of SameValidationOption: the record value is not compared.
SameValidationOptionIgnoringValue(x, y) ==
    /\ x.resourceRecordType = y.resourceRecordType
    /\ x.resourceRecordName = y.resourceRecordName

\* The comparator passed to uniqWith by the callback.
SameValidationOption(x, y) ==
    /\ x.resourceRecordType = y.resourceRecordType
    /\ x.resourceRecordValue = y.resourceRecordValue
    /\ x.resourceRecordName = y.resourceRecordName

\* The comparator as a callback value.
Comparator ==
    [p \in ValidationOption \X ValidationOption |->
        SameValidationOption(p[1], p[2])]

\* The route53.Record declared for a retained option at a zero-based index.
ValidationRecord(validationOption, index) ==
    [index |-> index,
     type |-> validationOption.resourceRecordType,
     ttl |-> 60,
     name |-> validationOption.resourceRecordName,
     records |-> <<validationOption.resourceRecordValue>>,
     state |-> "registered"]

\* Variant of DnsValidation: every validation awaits the first record.
DnsValidationOfFirstRecord(certValidationRecord, index) ==
    [index |-> index,
     certificateArn |-> "certificate",
     fqdnOf |-> 0,
     state |-> "registered"]

\* Every validation but the first awaiting the record of the challenge
\* before its own.
DnsValidationOfPreviousRecord(certValidationRecord, index) ==
    [index |-> index,
     certificateArn |-> "certificate",
     fqdnOf |-> IF index = 0 THEN 0 ELSE index - 1,
     state |-> "registered"]

\* The acm.CertificateValidation declared for a record at a zero-based index;
\* fqdnOf names the record whose fqdn output it awaits.
DnsValidation(certValidationRecord, index) ==
    [index |-> index,
     certificateArn |-> "certificate",
     fqdnOf |-> certValidationRecord.index,
     state |-> "registered"]

----------------------------------------------------------------------------
(* The provisioning engine *)

DepsCreated(r) == \A d \in Deps(stage, r) : status[d] = "created"

Ready(r) == status[r] = "registered" /\ DepsCreated(r)

\* The run stops issuing requests once it is aborted and after the first
\* provider rejection; after a rejection requests already in flight still
\* complete.
Halted ==
    \/ phase = "aborted"
    \/ \E r \in Resources(stage) : status[r] = "failed"
    \/ \E i \in 1..Len(records) : records[i].state = "failed"
    \/ \E i \in 1..Len(validations) : validations[i].state = "failed"

\* The run has nothing left to do.
Completed ==
    /\ \A r \in Resources(stage) : status[r] = "created"
    /\ applied
    /\ \A i \in 1..Len(records) : records[i].state = "created"
    /\ \A i \in 1..Len(validations) : validations[i].state = "created"

\* The order in which ready resources are served.  Supporting resources are
\* served first, in declaration order; the load-balancer, certificate,
\* container and scaling resources are served in any order.
FirstReadySupporting ==
    LET D == Declared(stage)
        ready == {i \in 1..Len(D) : D[i] \in Supporting /\ Ready(D[i])}
    IN  {D[i] : i \in {j \in ready : \A k \in ready : j <= k}}

Schedulable(r) ==
    /\ Ready(r)
    /\ ~Halted
    /\ FirstReadySupporting = {} \/ r \in FirstReadySupporting

RunChallenges == SeqsUpTo({RunOptionA, RunOptionB}, MaxRunChallenges)

\* Challenge lists explored for the callback alone: four options of which
\* each of the last three differs from the first in exactly one field.
CallbackOptions ==
    {RunOptionA,
     [RunOptionA EXCEPT !.resourceRecordType = "TXT"],
     [RunOptionA EXCEPT !.resourceRecordName = "_b.uncld.net."],
     [RunOptionA EXCEPT !.resourceRecordValue = "_y.acm-validations.aws."]}

CallbackChallenges == SeqsUpTo(CallbackOptions, MaxChallenges)

States == {"registered", "creating", "created", "failed"}

TypeOK ==
    /\ stage \in {"single", "multi"}
    /\ status \in [Resources(stage) -> {"registered", "created", "failed"}]
    /\ validationOptions \in SeqsUpTo(ValidationOption, MaxChallenges)
    /\ applied \in BOOLEAN
    /\ phase \in {"running", "aborted"}
    /\ run \in Nat \ {0}
    /\ desired \in [Services(stage) -> Nat]
    /\ now \in Nat
    /\ \A svc \in Services(stage) :
          \A k \in 1..Len(activities[svc]) : activities[svc][k] \in 0..now
    /\ Len(records) = Len(validations)
    /\ \A i \in 1..Len(records) :
          /\ records[i].state \in {"registered", "created", "failed"}
          /\ validations[i].state \in States

Init ==
    /\ stage \in {"single", "multi"}
    /\ status = [r \in Resources(stage) |-> "registered"]
    /\ validationOptions = <<>>
    /\ applied = FALSE
    /\ records = <<>>
    /\ validations = <<>>
    /\ forwarded = NoRequest
    /\ phase = "running"
    /\ run = 1
    /\ desired = [svc \in Services(stage) |-> 0]
    /\ now = 0
    /\ activities = [svc \in Services(stage) |-> <<>>]

\* A declared resource whose references are all resolved is created.
Create(r) ==
    /\ r # "certificate"
    /\ Schedulable(r)
    /\ status' = [status EXCEPT ![r] = "created"]
    /\ desired' = IF r \in Services(stage)
                  THEN [desired EXCEPT ![r] = DesiredCount(r)]
                  ELSE desired
    /\ UNCHANGED <<stage, validationOptions, applied, records, validations,
                   forwarded, opsVars, scalingVars>>

\* The certificate request succeeds and the certificate authority returns
\* its validation options.
CreateCertificate(options) ==
    /\ Schedulable("certificate")
    /\ status' = [status EXCEPT !["certificate"] = "created"]
    /\ validationOptions' = options
    /\ UNCHANGED <<stage, applied, records, validations,
                   forwarded, opsVars, scalingVars, desired>>

\* The provider rejects a resource whose references are all resolved.
Fail(r) ==
    /\ Schedulable(r)
    /\ status' = [status EXCEPT ![r] = "failed"]
    /\ UNCHANGED <<stage, validationOptions, applied, records, validations,
                   forwarded, opsVars, scalingVars, desired>>

\* A declaration made again by a later run: when the deployment already
\* holds the resource of that name with the same arguments, the resource is
\* kept as it is.
Same(existing, i, declared) ==
    IF /\ i <= Len(existing)
       /\ existing[i] = [declared EXCEPT !.state = "created"]
    THEN existing[i]
    ELSE declared

\* certificate.domainValidationOptions.apply(...): runs once the certificate
\* exists; deduplicates the options, declares one record per retained option
\* and one validation per declared record.
ApplyDomainValidationOptions ==
    /\ phase = "running"
    /\ status["certificate"] = "created"
    /\ ~applied
    /\ LET kept == uniqWith(validationOptions, Comparator)
           mapped == [i \in 1..Len(kept) |-> ValidationRecord(kept[i], i - 1)]
           waits == [i \in 1..Len(mapped) |-> DnsValidation(mapped[i], i - 1)]
       IN  /\ records' = [i \in 1..Len(mapped) |-> Same(records, i, mapped[i])]
           /\ validations' =
                 [i \in 1..Len(waits) |-> Same(validations, i, waits[i])]
    /\ applied' = TRUE
    /\ UNCHANGED <<stage, status, validationOptions,
                   forwarded, opsVars, scalingVars, desired>>

\* Validation records reference only values unwrapped inside the callback.
CreateRecord(i) ==
    /\ ~Halted
    /\ applied
    /\ records[i].state = "registered"
    /\ records' = [records EXCEPT ![i].state = "created"]
    /\ UNCHANGED <<stage, status, validationOptions, applied, validations,
                   forwarded, opsVars, scalingVars, desired>>

FailRecord(i) ==
    /\ ~Halted
    /\ applied
    /\ records[i].state = "registered"
    /\ records' = [records EXCEPT ![i].state = "failed"]
    /\ UNCHANGED <<stage, status, validationOptions, applied, validations,
                   forwarded, opsVars, scalingVars, desired>>

\* A validation references certificate.arn and the fqdn of its record; once
\* both are known the wait for the certificate authority begins.
RequestValidation(i) ==
    /\ ~Halted
    /\ applied
    /\ validations[i].state = "registered"
    /\ status[validations[i].certificateArn] = "created"
    /\ \E j \in 1..Len(records) :
          /\ records[j].index = validations[i].fqdnOf
          /\ records[j].state = "created"
    /\ validations' = [validations EXCEPT ![i].state = "creating"]
    /\ UNCHANGED <<stage, status, validationOptions, applied, records,
                   forwarded, opsVars, scalingVars, desired>>

\* The certificate authority observes the record and validates.
CompleteValidation(i) ==
    /\ phase = "running"
    /\ applied
    /\ validations[i].state = "creating"
    /\ validations' = [validations EXCEPT ![i].state = "created"]
    /\ UNCHANGED <<stage, status, validationOptions, applied, records,
                   forwarded, opsVars, scalingVars, desired>>

\* The wait for the certificate authority times out.
FailValidation(i) ==
    /\ phase = "running"
    /\ applied
    /\ validations[i].state = "creating"
    /\ validations' = [validations EXCEPT ![i].state = "failed"]
    /\ UNCHANGED <<stage, status, validationOptions, applied, records,
                   forwarded, opsVars, scalingVars, desired>>

\* The run is interrupted: it issues no further request and the waits it
\* was in are given up.
Abort ==
    /\ phase = "running"
    /\ run < MaxRuns
    /\ ~Completed
    /\ phase' = "aborted"
    /\ UNCHANGED <<stage, status, validationOptions, applied, records,
                   validations, forwarded, run, scalingVars, desired>>

\* Variant of Rerun: the run declares everything anew.
RerunFromScratch ==
    /\ run < MaxRuns
    /\ phase = "aborted" \/ Completed
    /\ run' = run + 1
    /\ phase' = "running"
    /\ status' = [r \in Resources(stage) |-> "registered"]
    /\ applied' = FALSE
    /\ records' = <<>>
    /\ validations' = <<>>
    /\ UNCHANGED <<stage, validationOptions, forwarded, scalingVars, desired>>

\* The program is run again over the deployment the previous run left: what
\* was created is kept, everything else is declared again, and the callback
\* runs again on the certificate's challenges.
Rerun ==
    /\ run < MaxRuns
    /\ phase = "aborted" \/ Completed
    /\ run' = run + 1
    /\ phase' = "running"
    /\ status' = [r \in Resources(stage) |->
                     IF status[r] = "created" THEN "created" ELSE "registered"]
    /\ applied' = FALSE
    /\ records' = [i \in 1..Len(records) |->
                      IF records[i].state = "created" THEN records[i]
                      ELSE [records[i] EXCEPT !.state = "registered"]]
    /\ validations' = [i \in 1..Len(validations) |->
                          IF validations[i].state = "created"
                          THEN validations[i]
                          ELSE [validations[i] EXCEPT !.state = "registered"]]
    /\ UNCHANGED <<stage, validationOptions, forwarded, scalingVars, desired>>

\* Time is followed from the moment the run has completed.
Tick ==
    /\ Completed
    /\ now < MaxTicks * TickSeconds
    /\ now' = now + TickSeconds
    /\ UNCHANGED <<stage, status, validationOptions, applied, records,
                   validations, forwarded, opsVars, desired, activities>>

\* After the run the operator asks for one more replica of a service whose
\* scalable target is registered, within the target's capacity.
ScaleOut(svc) ==
    /\ Completed
    /\ status[ScalingServiceTarget(svc)] = "created"
    /\ desired[svc] < MaxDesired
    /\ desired[svc] < ScalingTarget(ScalingServiceTarget(svc)).maxCapacity
    /\ desired' = [desired EXCEPT ![svc] = @ + 1]
    /\ UNCHANGED <<stage, status, validationOptions, applied, records,
                   validations, forwarded, opsVars, scalingVars>>

\* The desired count a step adjustment of ChangeInCapacity yields, kept
\* within the capacity of the scalable target.
Adjusted(count, step, target) ==
    LET sum == count + step.scalingAdjustment
    IN  IF sum < target.minCapacity THEN target.minCapacity
        ELSE IF sum > target.maxCapacity THEN target.maxCapacity
        ELSE sum

\* The alarm of a service's step policy goes off with the metric below its
\* threshold: unless the policy is in its cooldown, the step adjustment of
\* that interval is applied to the desired count.
FirePolicy(svc) ==
    LET target == ScalingServiceTarget(svc)
        policy == ScalingTargetPolicy(target)
        config == stepScalingPolicyConfiguration(policy)
        last == activities[svc]
    IN  /\ status[policy] = "created"
        /\ IF last = <<>> THEN TRUE
           ELSE now - last[Len(last)] >= config.cooldown
        /\ \E k \in 1..Len(config.stepAdjustments) :
              LET count == Adjusted(desired[svc], config.stepAdjustments[k],
                                    ScalingTarget(target))
              IN  /\ count # desired[svc]
                  /\ desired' = [desired EXCEPT ![svc] = count]
        /\ activities' = [activities EXCEPT ![svc] = Append(@, now)]
        /\ UNCHANGED <<stage, status, validationOptions, applied, records,
                       validations, forwarded, opsVars, now>>

\* The target groups a request path is forwarded to by a listener: those of
\* the matching rules of lowest priority number, or else the default action's.
Route(listener, path) ==
    LET live == {rule \in ListenerRules(stage) :
                    /\ rule.listenerArn = listener
                    /\ status[rule.name] = "created"
                    /\ \E v \in rule.values : Match(v, path)}
        best == {rule \in live : \A o \in live : rule.priority <= o.priority}
    IN  IF live = {} THEN {DefaultActions(listener)[1].targetGroupArn}
        ELSE {rule.targetGroupArn : rule \in best}

\* The secure listener serves a request.
HandleRequest(path) ==
    /\ status[SecureListener(stage)] = "created"
    /\ \E tg \in Route(SecureListener(stage), path) :
          forwarded' = [path |-> path, targetGroupArn |-> tg]
    /\ UNCHANGED <<stage, status, validationOptions, applied, records,
                   validations, opsVars, scalingVars, desired>>

Next ==
    \/ \E r \in Resources(stage) : Create(r)
    \/ \E options \in RunChallenges : CreateCertificate(options)
    \/ \E r \in Resources(stage) : Fail(r)
    \/ ApplyDomainValidationOptions
    \/ \E i \in 1..Len(records) : CreateRecord(i)
    \/ \E i \in 1..Len(records) : FailRecord(i)
    \/ \E i \in 1..Len(validations) : RequestValidation(i)
    \/ \E i \in 1..Len(validations) : CompleteValidation(i)
    \/ \E i \in 1..Len(validations) : FailValidation(i)

Spec == Init /\ [][Next]_vars

\* The certificate pipeline alone, over every challenge list up to
\* MaxChallenges.
NextCallback ==
    \/ \E r \in Supporting \cap Resources(stage) : Create(r)
    \/ \E options \in CallbackChallenges : CreateCertificate(options)
    \/ ApplyDomainValidationOptions
    \/ \E i \in 1..Len(records) : CreateRecord(i)
    \/ \E i \in 1..Len(validations) : RequestValidation(i)
    \/ \E i \in 1..Len(validations) : CompleteValidation(i)

SpecCallback == Init /\ [][NextCallback]_vars

\* Provisioning without provider rejections, with requests arriving at the
\* secure listener as soon as it exists.
NextTraffic ==
    \/ \E r \in Resources(stage) : Create(r)
    \/ \E options \in RunChallenges : CreateCertificate(options)
    \/ ApplyDomainValidationOptions
    \/ \E i \in 1..Len(records) : CreateRecord(i)
    \/ \E i \in 1..Len(validations) : RequestValidation(i)
    \/ \E i \in 1..Len(validations) : CompleteValidation(i)
    \/ \E path \in Paths : HandleRequest(path)

SpecTraffic == Init /\ [][NextTraffic]_vars

\* Provisioning without provider rejections, every enabled request being
\* issued and every wait of the certificate authority coming to its end.
NextConverge ==
    \/ \E r \in Resources(stage) : Create(r)
    \/ \E options \in RunChallenges : CreateCertificate(options)
    \/ ApplyDomainValidationOptions
    \/ \E i \in 1..Len(records) : CreateRecord(i)
    \/ \E i \in 1..Len(validations) : RequestValidation(i)
    \/ \E i \in 1..Len(validations) : CompleteValidation(i)

SpecConverge == Init /\ [][NextConverge]_vars /\ WF_vars(NextConverge)

\* Runs that may be interrupted and followed by another run of the same
\* program over the deployment left behind.
NextRerun ==
    \/ \E r \in Resources(stage) : Create(r)
    \/ \E options \in RunChallenges : CreateCertificate(options)
    \/ ApplyDomainValidationOptions
    \/ \E i \in 1..Len(records) : CreateRecord(i)
    \/ \E i \in 1..Len(validations) : RequestValidation(i)
    \/ \E i \in 1..Len(validations) : CompleteValidation(i)
    \/ Abort
    \/ Rerun

SpecRerun == Init /\ [][NextRerun]_vars /\ WF_vars(NextConverge)

\* The two-service program deployed without rejections, with the clock
\* running, the operator scaling out and the scaling policies firing.
NextScaling ==
    \/ \E r \in Resources(stage) : Create(r)
    \/ \E options \in RunChallenges : CreateCertificate(options)
    \/ ApplyDomainValidationOptions
    \/ \E i \in 1..Len(records) : CreateRecord(i)
    \/ \E i \in 1..Len(validations) : RequestValidation(i)
    \/ \E i \in 1..Len(validations) : CompleteValidation(i)
    \/ Tick
    \/ \E svc \in Services(stage) : ScaleOut(svc)
    \/ \E svc \in Services(stage) : FirePolicy(svc)

\* Only the two-service program declares scaling resources.
InitScaling ==
    /\ Init
    /\ stage = "multi"

SpecScaling == InitScaling /\ [][NextScaling]_vars

----------------------------------------------------------------------------
(* Properties *)

\* A validation wait is pending from its declaration until the certificate
\* authority has validated (or the wait has timed out).
Pending(i) == validations[i].state \in {"registered", "creating"}

\* The distinct (type, name, value) triples of a challenge list.
Distinct(arr) == {arr[i] : i \in 1..Len(arr)}

\* Positions of first occurrences, and the k-th smallest of them.
FirstPositions(arr) ==
    {i \in 1..Len(arr) : \A j \in 1..(i - 1) : arr[j] # arr[i]}

NthFirstPosition(arr, k) ==
    CHOOSE i \in FirstPositions(arr) :
        Cardinality({j \in FirstPositions(arr) : j <= i}) = k

CreatedOfKind(k) ==
    {r \in Resources(stage) : status[r] = "created" /\ Kind(r) = k}

\* C1: while a validation wait of a retained challenge is still pending, the
\* secure listener does not exist.
C1_SecureListenerGated ==
    (\E i \in 1..Len(validations) : Pending(i))
        => status[SecureListener(stage)] # "created"

\* C2: the deduplicator returns the subsequence of first occurrences in input
\* order under equality of (type, name, value); its length is the number of
\* distinct triples and no two retained challenges are equal.
C2_FirstOccurrences ==
    LET arr == validationOptions
        out == uniqWith(arr, Comparator)
    IN  /\ Len(out) = Cardinality(FirstPositions(arr))
        /\ \A k \in 1..Len(out) : out[k] = arr[NthFirstPosition(arr, k)]
        /\ Len(out) = Cardinality(Distinct(arr))
        /\ \A i, j \in 1..Len(out) : i # j => out[i] # out[j]

\* C2 witness: the callback has run on three challenges, two of them equal
\* and not adjacent.
C2_Witness ==
    /\ applied
    /\ Len(validationOptions) = 3
    /\ validationOptions[1] = validationOptions[3]
    /\ validationOptions[1] # validationOptions[2]
    /\ Len(records) = 2

\* C3: once the callback has run there is exactly one record and exactly one
\* validation wait per distinct triple, the i-th record carries the i-th
\* distinct challenge and the i-th wait references the i-th record.
C3_OneRecordAndWaitPerTriple ==
    applied =>
        /\ Len(records) = Cardinality(Distinct(validationOptions))
        /\ Len(validations) = Cardinality(Distinct(validationOptions))
        /\ \A t \in Distinct(validationOptions) :
              Cardinality({i \in 1..Len(records) :
                              /\ records[i].type = t.resourceRecordType
                              /\ records[i].name = t.resourceRecordName
                              /\ records[i].records = <<t.resourceRecordValue>>}) = 1
        /\ \A i \in 1..Len(records) :
              /\ records[i].index = i - 1
              /\ validations[i].index = i - 1
              /\ validations[i].fqdnOf = records[i].index
              /\ records[i].name =
                    validationOptions[NthFirstPosition(validationOptions, i)]
                        .resourceRecordName

\* C3 witness: three challenges of which two are value-identical have produced
\* two records and two validation waits, all created.
C3_Witness ==
    /\ Len(validationOptions) = 3
    /\ Cardinality(Distinct(validationOptions)) = 2
    /\ Len(records) = 2
    /\ Len(validations) = 2
    /\ \A i \in 1..2 : records[i].state = "created"
    /\ \A i \in 1..2 : validations[i].state = "created"

\* C4: a created service finds both listeners created, and the path-routed
\* service also finds its routing rule created.
C4_ServicesAfterListeners ==
    /\ \A svc \in Services(stage) :
          status[svc] = "created" =>
              /\ status[PlainListener(stage)] = "created"
              /\ status[SecureListener(stage)] = "created"
    /\ stage = "multi" =>
          (status["todoApiService"] = "created"
              => status["todoApiListenerRule"] = "created")

\* C4 witness: the path-routed service has been created.
C4_Witness == stage = "multi" /\ status["todoApiService"] = "created"

\* C5: as long as certificate validation has not completed, neither the
\* secure listener nor any service exists.
C5_NothingSecureWithoutValidation ==
    (/\ status["certificate"] = "created"
     /\ validationOptions # <<>>
     /\ ~(applied /\ \A i \in 1..Len(validations) :
                        validations[i].state = "created"))
        => /\ status[SecureListener(stage)] # "created"
           /\ \A svc \in Services(stage) : status[svc] # "created"

\* C6: neither the plain listener nor any target group depends, directly or
\* transitively, on the certificate, so each of them is ready as soon as its
\* own prerequisites exist, whatever the state of the validation waits.
C6_ValidationBlocksNothingUnrelated ==
    \A r \in {PlainListener(stage)} \cup TargetGroups(stage) :
        /\ "certificate" \notin Ancestors(stage, r)
        /\ (status[r] = "registered"
              /\ \A d \in Deps(stage, r) \ {"certificate"} :
                    status[d] = "created")
                 => Ready(r)

\* C6 witness: the plain listener and every target group exist while a
\* validation wait is in flight.
C6_Witness ==
    /\ \E i \in 1..Len(validations) : validations[i].state = "creating"
    /\ status[PlainListener(stage)] = "created"
    /\ \A tg \in TargetGroups(stage) : status[tg] = "created"

\* C7: nothing that depends on a failed resource is ever requested; when the
\* certificate request fails no challenge is issued and the secure listener,
\* the routing rule and the services are never requested.
C7_DependentsOfFailureNotAttempted ==
    /\ \A r \in Resources(stage) :
          (\E d \in Ancestors(stage, r) : status[d] = "failed")
              => status[r] = "registered"
    /\ status["certificate"] = "failed" =>
          /\ ~applied /\ records = <<>> /\ validations = <<>>
          /\ status[SecureListener(stage)] = "registered"
          /\ \A svc \in Services(stage) : status[svc] = "registered"
          /\ stage = "multi" => status["todoApiListenerRule"] = "registered"
    /\ \A i \in 1..Len(validations) :
          (\E j \in 1..Len(records) :
              /\ records[j].index = validations[i].fqdnOf
              /\ records[j].state = "failed")
                 => validations[i].state = "registered"

\* C7 witness: the certificate request has failed and the plain listener
\* exists.
C7_Witness ==
    /\ status["certificate"] = "failed"
    /\ status[PlainListener(stage)] = "created"

\* C9: rule priorities are pairwise distinct and increase in the declaration
\* order of the services they route to, and every request path on the secure
\* listener selects exactly one target group: that of the matching rule of
\* highest priority, otherwise the default action's.
C9_UnambiguousRouting ==
    /\ \A a, b \in ListenerRules(stage) : a # b => a.priority # b.priority
    /\ \A a, b \in ListenerRules(stage) :
          \A i, j \in 1..Len(Declared(stage)) :
              (/\ i < j
               /\ Declared(stage)[i] \in Services(stage)
               /\ Declared(stage)[j] \in Services(stage)
               /\ ServiceTargetGroup(Declared(stage)[i]) = a.targetGroupArn
               /\ ServiceTargetGroup(Declared(stage)[j]) = b.targetGroupArn)
                  => a.priority < b.priority
    /\ status[SecureListener(stage)] = "created" =>
          \A path \in Paths :
              Cardinality(Route(SecureListener(stage), path)) = 1
    /\ forwarded # NoRequest =>
          LET default ==
                  DefaultActions(SecureListener(stage))[1].targetGroupArn
              matching ==
                  {rule \in ListenerRules(stage) :
                      /\ status[rule.name] = "created"
                      /\ \E v \in rule.values : Match(v, forwarded.path)}
          IN  /\ forwarded.targetGroupArn
                    \in {default} \cup {rule.targetGroupArn : rule \in matching}
              /\ forwarded.targetGroupArn # default =>
                    \E rule \in matching :
                        /\ rule.targetGroupArn = forwarded.targetGroupArn
                        /\ \A o \in matching : rule.priority <= o.priority

\* C9 witness: a request matching the routing rule was forwarded to the
\* rule's target group.
C9_Witness ==
    /\ stage = "multi"
    /\ forwarded.path = <<"/", "a", "p", "i", "/", "t">>
    /\ forwarded.targetGroupArn = "todoApiTg"

\* C10: a completed run of the two-service program holds one load balancer,
\* one plain listener that only redirects to HTTPS, one secure listener whose
\* default action forwards to the first-declared service's target group, one
\* routing rule of priority 10 forwarding to the api target group, two task
\* definition/service pairs and two autoscaling attachments.
C10_TwoServiceTopology ==
    (stage = "multi" /\ Completed) =>
        /\ CreatedOfKind("LoadBalancer") = {"alb"}
        /\ CreatedOfKind("Listener") = {"httpsRedirectListener", "todoListener"}
        /\ ListenerPort("httpsRedirectListener") = 80
        /\ Len(DefaultActions("httpsRedirectListener")) = 1
        /\ DefaultActions("httpsRedirectListener")[1].type = "redirect"
        /\ DefaultActions("httpsRedirectListener")[1].protocol = "HTTPS"
        /\ ListenerPort("todoListener") = 443
        /\ DefaultActions("todoListener") =
              <<[type |-> "forward",
                 targetGroupArn |-> ServiceTargetGroup("todoAppService")]>>
        /\ \A svc \in Services("multi") :
              \A i \in 1..Len(MultiDeclared) :
                  MultiDeclared[i] = "todoAppService" =>
                      \A j \in 1..Len(MultiDeclared) :
                          MultiDeclared[j] = svc => i <= j
        /\ CreatedOfKind("ListenerRule") = {"todoApiListenerRule"}
        /\ \A rule \in ListenerRules("multi") :
              /\ rule.name = "todoApiListenerRule"
              /\ rule.priority = 10
              /\ rule.targetGroupArn = ServiceTargetGroup("todoApiService")
        /\ Cardinality(ListenerRules("multi")) = 1
        /\ Cardinality(CreatedOfKind("TaskDefinition")) = 2
        /\ Cardinality(CreatedOfKind("Service")) = 2
        /\ {ServiceTask(svc) : svc \in CreatedOfKind("Service")}
              = CreatedOfKind("TaskDefinition")
        /\ Cardinality(CreatedOfKind("ScalingTarget")) = 2
        /\ Cardinality(CreatedOfKind("ScalingPolicy")) = 2
        /\ {ScalingTargetService(t) : t \in CreatedOfKind("ScalingTarget")}
              = CreatedOfKind("Service")
        /\ {ScalingPolicyTarget(pol) : pol \in CreatedOfKind("ScalingPolicy")}
              = CreatedOfKind("ScalingTarget")

\* C10 witness: the two-service program has been provisioned completely after
\* two distinct challenges.
C10_Witness ==
    /\ stage = "multi"
    /\ Completed
    /\ Len(validations) = 2

\* C12: de-duplicating the already de-duplicated challenge sequence returns
\* it unchanged, and the records the callback declares are those of that
\* same retained sequence, however often it is computed.
C12_UniqWithIdempotent ==
    LET once  == uniqWith(validationOptions, Comparator)
        twice == uniqWith(once, Comparator)
    IN  /\ twice = once
        /\ applied =>
              /\ Len(records) = Len(twice)
              /\ \A i \in 1..Len(twice) :
                    /\ records[i].name = twice[i].resourceRecordName
                    /\ records[i].type = twice[i].resourceRecordType
                    /\ records[i].records = <<twice[i].resourceRecordValue>>

\* The callback has run on a sequence that repeats one challenge three
\* times, so the first pass removed something and the second had nothing
\* left to remove.
C12_Witness ==
    /\ applied
    /\ Len(validationOptions) = 3
    /\ validationOptions[2] = validationOptions[1]
    /\ validationOptions[3] = validationOptions[1]
    /\ Len(uniqWith(validationOptions, Comparator)) = 1
    /\ Len(records) = 1

\* C17: validations are declared only once the certificate exists, and a
\* validation wait has begun only if the certificate exists and the DNS
\* record of its own challenge is created; the records of the other
\* challenges play no part.
C17_WaitAfterCertificateAndOwnRecord ==
    /\ (applied \/ Len(validations) > 0) => status["certificate"] = "created"
    /\ \A i \in 1..Len(validations) :
          validations[i].state # "registered" =>
              /\ status["certificate"] = "created"
              /\ validations[i].index = i - 1
              /\ records[i].index = i - 1
              /\ records[i].state = "created"

\* The wait of the second challenge is under way or over while the record
\* of the first challenge has not been created yet.
C17_Witness ==
    /\ Len(validations) = 2
    /\ validations[2].state \in {"creating", "created"}
    /\ records[1].state = "registered"
    /\ validations[1].state = "registered"

\* C15: once the routing rule of the api service exists, the path of the
\* exported publicApiUrl matches the rule's pattern, and a request to
\* exactly that URL is forwarded to the api service's target group and not
\* to the default one.
C15_PublicApiUrlReachesApi ==
    (/\ stage = "multi"
     /\ status["todoListener"] = "created"
     /\ status["todoApiListenerRule"] = "created")
        => /\ publicApiUrl.path \in Paths
           /\ \E rule \in ListenerRules(stage) :
                 /\ rule.targetGroupArn = ServiceTargetGroup("todoApiService")
                 /\ \E v \in rule.values : Match(v, publicApiUrl.path)
           /\ Route("todoListener", publicApiUrl.path)
                 = {ServiceTargetGroup("todoApiService")}

\* C13: when the certificate authority returns no challenge, the callback
\* declares no DNS record and no validation wait, and the run still
\* succeeds: the secure listener holding the certificate and every service
\* are eventually created and nothing is left to do.
C13_EmptyChallengeListSucceeds ==
    /\ []((status["certificate"] = "created" /\ validationOptions = <<>>)
             => (records = <<>> /\ validations = <<>>))
    /\ (status["certificate"] = "created" /\ validationOptions = <<>>)
          ~> (/\ status[SecureListener(stage)] = "created"
              /\ "certificate" \in Deps(stage, SecureListener(stage))
              /\ \A svc \in Services(stage) : status[svc] = "created"
              /\ Completed)

\* A run with an empty challenge list has created everything, the callback
\* having run without declaring anything.
C13_Witness ==
    /\ status["certificate"] = "created"
    /\ validationOptions = <<>>
    /\ applied
    /\ records = <<>>
    /\ validations = <<>>
    /\ status[SecureListener(stage)] = "created"
    /\ \A svc \in Services(stage) : status[svc] = "created"

\* C16: in both programs every declaration references and depends on
\* earlier declarations only, so the dependency graph has no cycle; when no
\* request is rejected and every validation wait ends, every declared
\* resource is eventually created, and once all are created the run takes
\* no further step.
C16_AcyclicAndConverges ==
    /\ [](\A i \in 1..Len(Declared(stage)) :
             \A d \in Deps(stage, Declared(stage)[i]) :
                 \E j \in 1..(i - 1) : Declared(stage)[j] = d)
    /\ \A st \in {"single", "multi"} :
          (stage = st) ~> (stage = st /\ Completed)
    /\ [][~Completed]_vars

\* The two-service program has created every resource of a run with two
\* distinct challenges.
C16_Witness ==
    /\ stage = "multi"
    /\ Len(validations) = 2
    /\ Completed

\* Every created resource has all its prerequisites created.
PrerequisitesClosed ==
    /\ \A r \in Resources(stage) :
          status[r] = "created" => DepsCreated(r)
    /\ Len(records) > 0 => status["certificate"] = "created"
    /\ \A i \in 1..Len(validations) :
          validations[i].state = "created" =>
              /\ status[validations[i].certificateArn] = "created"
              /\ records[validations[i].fqdnOf + 1].state = "created"

\* Everything the program declares for the certificate's challenges exists.
Converged ==
    /\ \A r \in Resources(stage) : status[r] = "created"
    /\ Len(records) = Len(uniqWith(validationOptions, Comparator))
    /\ \A i \in 1..Len(records) : records[i].state = "created"
    /\ \A i \in 1..Len(validations) : validations[i].state = "created"

====
